---- MODULE Spec2Model ----
(***************************************************************************)
(* JobDiary API: the jobs/entries store, the repository layer (app/crud.py) *)
(* and the write endpoints (app/main.py) as a state machine.               *)
(*                                                                         *)
(* Reads (get_job, list_jobs, get_job_by_name, list_entries,               *)
(* search_entries) are operators over the store; the write endpoints are   *)
(* the actions.  Every repository call runs in the request's own session   *)
(* (app/db.py get_db) and commits before it returns, so an endpoint is one *)
(* atomic step over the committed rows.                                    *)
(*                                                                         *)
(* Clock: every repository call that stamps a row reads a clock value      *)
(* strictly greater than every value read before it (one host,             *)
(* microsecond resolution).  served counts the requests that changed the   *)
(* store, to bound the runs.                                               *)
(*                                                                         *)
(* Spec serves the requests one after the other.  SpecRace is the same API *)
(* with the state patch also served by workers whose requests overlap:     *)
(* each request has its own session (get_db), update_job_state loads the   *)
(* row and changes the loaded object in one step and commits in a later    *)
(* one, and inflight holds the sessions between the two.                   *)
(***************************************************************************)
EXTENDS Integers, Sequences, FiniteSets, TLC

VARIABLES jobs, entries, now, served, last, inflight

vars == <<jobs, entries, now, served, last, inflight>>

----------------------------------------------------------------------------
(* Bounds of the model *)

MaxJobs == 2

MaxEntries == 2

MaxRequests == 3
\* Sessions of overlapping state-patch requests open at one time.
MaxInFlight == 2

(* Program constants *)

SummaryLimit == 200

LimitMin == 1

LimitMax == 100

HTTP_200 == 200

HTTP_201 == 201

HTTP_400 == 400

HTTP_404 == 404

----------------------------------------------------------------------------
(* Values *)

\* Optional[T]: None is the empty sequence, a present value v is <<v>>.
None == <<>>

Some(v) == <<v>>

Users == {"A", "B"}

\* Identifiers uuid4 hands out, in the order it does; until the store is
\* full the later ones are identifiers of no job.
IdSpace == 1 .. MaxJobs

\* Names given to POST /jobs (PATCH renames a job to "shed").
Names == {"site"}

\* str(uuid): the canonical text of an identifier.
UUIDStr(i) == "uuid-" \o ToString(i)

\* UUID() also accepts the same hex digits in upper case.
UUIDStrUpper(i) == "UUID-" \o ToString(i)

\* uuid.UUID(text): the identifier a text parses to, None for ValueError.
UUID(text) ==
    IF \E i \in IdSpace : text \in {UUIDStr(i), UUIDStrUpper(i)}
    THEN Some(CHOOSE i \in IdSpace : text \in {UUIDStr(i), UUIDStrUpper(i)})
    ELSE None

\* Texts a caller passes as job_name_or_id.
DebriefStrs == Names \cup {UUIDStr(i) : i \in IdSpace} \cup {UUIDStrUpper(1)}

\* JSON values of the state map: numbers, strings (sequences of
\* characters) and nested maps.
JNum(n) == [kind |-> "num", n |-> n, s |-> <<>>, m |-> <<>>]

JStr(s) == [kind |-> "str", n |-> 0, s |-> s, m |-> <<>>]

JMap(m) == [kind |-> "map", n |-> 0, s |-> <<>>, m |-> m]

\* {}: the empty dict.
EmptyMap == <<>>

\* Patches a caller posts to /jobs/{id}/state.
Patches ==
    { "a" :> JNum(1),
      "b" :> JNum(2),
      "a" :> JMap("x" :> 1),
      "a" :> JMap("y" :> 2) }

\* Texts: sequences of one-character strings.
ShortText == <<"a", "L", "E">>

OtherText == <<"x">>

\* A transcript one character longer than the summary limit.
LongText == [i \in 1 .. (SummaryLimit + 1) |-> IF i % 2 = 0 THEN "x" ELSE "y"]

Limits == {LimitMin, LimitMin + 1, LimitMax}

----------------------------------------------------------------------------
(* Repository layer: jobs (app/crud.py) *)

\* datetime.now(timezone.utc) / func.now(): the next clock value.
Clock(t) == t + 1

create_job(J, user_id, name, address, client_name, t) ==
    Append(J, [ id          |-> Len(J) + 1,
                user_id     |-> user_id,
                name        |-> name,
                address     |-> address,
                client_name |-> client_name,
                status      |-> "in_progress",
                job_state   |-> EmptyMap,
                created_at  |-> t,
                updated_at  |-> t ])

\* get_job without the owner filter.
get_job_anyowner(J, job_id, user_id) ==
    IF job_id \in DOMAIN J THEN Some(job_id) ELSE None

\* The row with this id and this owner, None when there is none.
get_job(J, job_id, user_id) ==
    IF job_id \in DOMAIN J /\ J[job_id].user_id = user_id
    THEN Some(job_id)
    ELSE None

\* Every sequence that lists the members of S once each with key
\* non-increasing: the orders ORDER BY key DESC may produce.
OrderedDesc(S, key) ==
    { q \in [1 .. Cardinality(S) -> S] :
        /\ \A i, j \in DOMAIN q : i # j => q[i] # q[j]
        /\ \A i, j \in DOMAIN q : i < j => key[q[i]] >= key[q[j]] }

\* .limit(n)
Take(q, n) == SubSeq(q, 1, IF n < Len(q) THEN n ELSE Len(q))

\* list_jobs ordered by created_at instead of updated_at.
list_jobs_by_created(J, user_id, limit) ==
    LET mine == { i \in DOMAIN J : J[i].user_id = user_id }
        crt == [i \in mine |-> J[i].created_at]
    IN  { Take(q, limit) : q \in OrderedDesc(mine, crt) }

\* The possible results of list_jobs: sequences of job ids.
list_jobs(J, user_id, limit) ==
    LET mine == { i \in DOMAIN J : J[i].user_id = user_id }
        upd == [i \in mine |-> J[i].updated_at]
    IN  { Take(q, limit) : q \in OrderedDesc(mine, upd) }

\* update_job that assigns address and client_name whether given or not.
update_job_resets(J, job_id, user_id, status, name, address, client_name, t) ==
    IF get_job(J, job_id, user_id) = None
    THEN [found |-> FALSE, jobs |-> J]
    ELSE LET job == J[job_id]
             new == [ job EXCEPT
                        !.status      = IF status # None THEN status[1] ELSE @,
                        !.name        = IF name # None THEN name[1] ELSE @,
                        !.address     = address,
                        !.client_name = client_name,
                        !.updated_at  = t ]
         IN  [found |-> TRUE, jobs |-> [J EXCEPT ![job_id] = new]]

\* update_job that leaves updated_at as it was.
update_job_unstamped(J, job_id, user_id, status, name, address, client_name, t) ==
    IF get_job(J, job_id, user_id) = None
    THEN [found |-> FALSE, jobs |-> J]
    ELSE LET job == J[job_id]
             new == [ job EXCEPT
                        !.status      = IF status # None THEN status[1] ELSE @,
                        !.name        = IF name # None THEN name[1] ELSE @,
                        !.address     = IF address # None THEN address ELSE @,
                        !.client_name = IF client_name # None THEN client_name ELSE @ ]
         IN  [found |-> TRUE, jobs |-> [J EXCEPT ![job_id] = new]]

\* The new rows and whether the job was found.
update_job(J, job_id, user_id, status, name, address, client_name, t) ==
    IF get_job(J, job_id, user_id) = None
    THEN [found |-> FALSE, jobs |-> J]
    ELSE LET job == J[job_id]
             new == [ job EXCEPT
                        !.status      = IF status # None THEN status[1] ELSE @,
                        !.name        = IF name # None THEN name[1] ELSE @,
                        !.address     = IF address # None THEN address ELSE @,
                        !.client_name = IF client_name # None THEN client_name ELSE @,
                        !.updated_at  = t ]
         IN  [found |-> TRUE, jobs |-> [J EXCEPT ![job_id] = new]]

\* dict.update: every key of patch is set to patch's value.
dict_update(state, patch) ==
    [ k \in (DOMAIN state) \cup (DOMAIN patch) |->
        IF k \in DOMAIN patch THEN patch[k] ELSE state[k] ]

\* The session's flush after `job.job_state = current_state`: the column is
\* written only when the attribute's value differs from the value the
\* session holds as the committed one, which is the object that was in the
\* attribute when it was assigned.  loaded is the dict read from the row;
\* when it is non-empty, `job.job_state or {}` is that very dict, update()
\* changes it in place and the assignment stores the same object again, so
\* the committed value and the current value are one object; db.refresh
\* then reads the row back.
flush_job_state(loaded, patch) ==
    LET fresh         == loaded = EmptyMap
        current_state == dict_update(IF fresh THEN EmptyMap ELSE loaded, patch)
        committed     == IF fresh THEN loaded ELSE current_state
    IN  IF current_state # committed THEN current_state ELSE loaded

update_job_state(J, job_id, user_id, patch, t) ==
    IF get_job(J, job_id, user_id) = None
    THEN [found |-> FALSE, jobs |-> J]
    ELSE [found |-> TRUE,
          jobs  |-> [J EXCEPT ![job_id].job_state = flush_job_state(@, patch),
                              ![job_id].updated_at = t]]

\* The possible results of get_job_by_name: .first() of the rows with this
\* owner and this name, in no stated order.
get_job_by_name(J, user_id, name) ==
    LET hits == { i \in DOMAIN J : J[i].user_id = user_id /\ J[i].name = name }
    IN  IF hits = {} THEN {None} ELSE { Some(i) : i \in hits }

----------------------------------------------------------------------------
(* Repository layer: entries (app/crud.py) *)

\* create_entry that inserts before it looks the job up.
create_entry_insert_first(J, E, user_id, job_id, transcript, extracted, summary, entry_ts, t) ==
    [raised  |-> get_job(J, job_id, user_id) = None,
     entries |-> Append(E, [ id         |-> Len(E) + 1,
                             job_id     |-> job_id,
                             user_id    |-> user_id,
                             transcript |-> transcript,
                             extracted  |-> IF extracted # None
                                            THEN extracted[1] ELSE EmptyMap,
                             summary    |-> summary,
                             entry_ts   |-> IF entry_ts # None
                                            THEN entry_ts[1] ELSE t,
                             created_at |-> t ])]

\* The new rows, and raised: whether ValueError was raised.
create_entry(J, E, user_id, job_id, transcript, extracted, summary, entry_ts, t) ==
    IF get_job(J, job_id, user_id) = None
    THEN [raised |-> TRUE, entries |-> E]
    ELSE [raised |-> FALSE,
          entries |-> Append(E, [ id         |-> Len(E) + 1,
                                  job_id     |-> job_id,
                                  user_id    |-> user_id,
                                  transcript |-> transcript,
                                  extracted  |-> IF extracted # None
                                                 THEN extracted[1] ELSE EmptyMap,
                                  summary    |-> summary,
                                  entry_ts   |-> IF entry_ts # None
                                                 THEN entry_ts[1] ELSE t,
                                  created_at |-> t ])]

\* The possible results of list_entries: sequences of entry ids.
list_entries(J, E, user_id, job_id, limit) ==
    IF get_job(J, job_id, user_id) = None
    THEN {<<>>}
    ELSE LET hits == { e \in DOMAIN E :
                         E[e].job_id = job_id /\ E[e].user_id = user_id }
             ts == [e \in hits |-> E[e].entry_ts]
         IN  { Take(q, limit) : q \in OrderedDesc(hits, ts) }

\* str.lower() of one character, as ILIKE folds case.
Lower(c) ==
    CASE c = "L" -> "l"
      [] c = "E" -> "e"
      [] c = "X" -> "x"
      [] OTHER   -> c

\* LIKE: whether pattern from its i-th character on matches text from its
\* j-th character on.  % matches any run of characters, _ any one
\* character, a backslash makes the next character literal; ILIKE folds
\* case on both sides.  (A % that ends the pattern matches whatever is
\* left of the text.)
RECURSIVE like_from(_, _, _, _)
like_from(pattern, i, text, j) ==
    IF i > Len(pattern) THEN j > Len(text)
    ELSE IF pattern[i] = "%"
         THEN \/ i = Len(pattern)
              \/ \E k \in j .. (Len(text) + 1) : like_from(pattern, i + 1, text, k)
    ELSE IF pattern[i] = "_"
         THEN j <= Len(text) /\ like_from(pattern, i + 1, text, j + 1)
    ELSE IF pattern[i] = "\\"
         THEN /\ i < Len(pattern)
              /\ j <= Len(text)
              /\ Lower(text[j]) = Lower(pattern[i + 1])
              /\ like_from(pattern, i + 2, text, j + 1)
    ELSE /\ j <= Len(text)
         /\ Lower(text[j]) = Lower(pattern[i])
         /\ like_from(pattern, i + 1, text, j + 1)

\* column.ilike(pattern); a NULL column matches nothing.
ilike(column, pattern) ==
    column # None /\ like_from(pattern, 1, column[1], 1)

\* The pattern without the surrounding wildcards.
search_pattern_bare(query) == query

\* f"%{query}%"
search_pattern(query) == <<"%">> \o query \o <<"%">>

\* The possible results of search_entries: sequences of entry ids.
search_entries(J, E, user_id, job_id, query, limit) ==
    IF get_job(J, job_id, user_id) = None
    THEN {<<>>}
    ELSE LET hits == { e \in DOMAIN E :
                         /\ E[e].job_id = job_id
                         /\ E[e].user_id = user_id
                         /\ \/ ilike(Some(E[e].transcript), search_pattern(query))
                            \/ ilike(E[e].summary, search_pattern(query)) }
             ts == [e \in hits |-> E[e].entry_ts]
         IN  { Take(q, limit) : q \in OrderedDesc(hits, ts) }

----------------------------------------------------------------------------
(* Request bodies the callers send *)

\* JobCreate: an address and no client name.
JobCreateBodies ==
    { [address |-> Some("12 High St"), client_name |-> None] }

\* JobUpdate: a field that is left out arrives as None.
JobUpdateBodies ==
    { [status |-> None, name |-> None, address |-> None, client_name |-> None],
      [status |-> Some("complete"), name |-> None, address |-> None,
       client_name |-> None],
      [status |-> None, name |-> Some("shed"), address |-> Some("9 Low Rd"),
       client_name |-> Some("Lee")] }

\* EntryCreate: a plain entry, and a backdated one with a summary and
\* extracted data.
EntryCreateBodies ==
    { [transcript |-> ShortText, extracted |-> None, summary |-> None,
       entry_ts |-> None],
      [transcript |-> OtherText, extracted |-> Some("k" :> JNum(1)),
       summary |-> Some(<<"L", "e">>), entry_ts |-> Some(0)] }

\* Transcripts sent to /debrief: under the summary limit, and over it.
DebriefTranscripts == {ShortText, LongText}

\* Queries sent to /entries/search.
Queries == { <<>>, <<"l", "e">>, <<"z">>, <<"_">>, <<"%">> }

----------------------------------------------------------------------------
(* API surface: the write endpoints (app/main.py).  last records the      *)
(* request just served and its outcome, with the body of a PATCH, a state  *)
(* patch or a debrief that was applied.                                    *)

Init ==
    /\ jobs = <<>>
    /\ entries = <<>>
    /\ now = 0
    /\ served = 0
    /\ last = [op |-> "startup", user_id |-> "", status |-> HTTP_200]
    /\ inflight = {}

\* POST /jobs
create_job_endpoint(user_id, name, address, client_name) ==
    /\ Len(jobs) < MaxJobs
    /\ served < MaxRequests
    /\ jobs' = create_job(jobs, user_id, name, address, client_name, Clock(now))
    /\ now' = Clock(now)
    /\ served' = served + 1
    /\ last' = [op |-> "create_job", user_id |-> user_id, status |-> HTTP_201,
                job_id |-> Len(jobs) + 1]
    /\ UNCHANGED <<entries, inflight>>

\* PATCH /jobs/{job_id}
update_job_endpoint(job_id, user_id, body) ==
    LET r == update_job(jobs, job_id, user_id, body.status, body.name,
                        body.address, body.client_name, Clock(now))
    IN  /\ served < MaxRequests
        /\ jobs' = r.jobs
        /\ now' = IF r.found THEN Clock(now) ELSE now
        /\ served' = IF r.found THEN served + 1 ELSE served
        /\ last' = IF r.found
                   THEN [op |-> "update_job", user_id |-> user_id,
                         status |-> HTTP_200, job_id |-> job_id, body |-> body]
                   ELSE [op |-> "update_job", user_id |-> user_id,
                         status |-> HTTP_404, job_id |-> job_id]
        /\ UNCHANGED <<entries, inflight>>

\* POST /jobs/{job_id}/state
update_job_state_endpoint(job_id, user_id, patch) ==
    LET r == update_job_state(jobs, job_id, user_id, patch, Clock(now))
    IN  /\ served < MaxRequests
        /\ jobs' = r.jobs
        /\ now' = IF r.found THEN Clock(now) ELSE now
        /\ served' = IF r.found THEN served + 1 ELSE served
        /\ last' = IF r.found
                   THEN [op |-> "update_job_state", user_id |-> user_id,
                         status |-> HTTP_200, job_id |-> job_id, patch |-> patch]
                   ELSE [op |-> "update_job_state", user_id |-> user_id,
                         status |-> HTTP_404, job_id |-> job_id]
        /\ UNCHANGED <<entries, inflight>>

\* POST /entries
create_entry_endpoint(user_id, job_id, body) ==
    LET r == create_entry(jobs, entries, user_id, job_id, body.transcript,
                          body.extracted, body.summary, body.entry_ts, Clock(now))
    IN  /\ served < MaxRequests
        /\ ~r.raised => Len(entries) < MaxEntries
        /\ entries' = r.entries
        /\ now' = IF r.raised THEN now ELSE Clock(now)
        /\ served' = IF r.raised THEN served ELSE served + 1
        /\ last' = [op |-> "create_entry", user_id |-> user_id,
                    status |-> IF r.raised THEN HTTP_404 ELSE HTTP_201,
                    job_id |-> job_id]
        /\ UNCHANGED <<jobs, inflight>>

\* datetime.isoformat(): the text of a clock value.
isoformat(t) == <<"T", ToString(t)>>

\* The state patch of a debrief.
state_patch(transcript, t) ==
    "last_debrief_ts" :> JStr(isoformat(t))
    @@ "last_summary" :> JStr(IF Len(transcript) > SummaryLimit
                              THEN SubSeq(transcript, 1, SummaryLimit)
                              ELSE transcript)

\* resolve_job that falls back to the name when the identifier is not found.
resolve_job_name_fallback(J, user_id, job_name_or_id, by_name, t) ==
    LET job_id == UUID(job_name_or_id)
    IN  IF job_id # None /\ get_job(J, job_id[1], user_id) # None
        THEN [resolved |-> get_job(J, job_id[1], user_id), created |-> FALSE,
              jobs |-> J]
        ELSE IF by_name # None
        THEN [resolved |-> by_name, created |-> FALSE, jobs |-> J]
        ELSE [resolved |-> Some(Len(J) + 1), created |-> TRUE,
              jobs |-> create_job(J, user_id, job_name_or_id, None, None, t)]

\* The job a debrief resolves, given what get_job_by_name returned: resolved
\* is None when the final `if not job` raises 404; created tells whether
\* create_job ran; jobs are the rows after it.
resolve_job(J, user_id, job_name_or_id, by_name, t) ==
    LET job_id == UUID(job_name_or_id)
    IN  IF job_id # None
        THEN [resolved |-> get_job(J, job_id[1], user_id), created |-> FALSE,
              jobs |-> J]
        ELSE IF by_name # None
        THEN [resolved |-> by_name, created |-> FALSE, jobs |-> J]
        ELSE [resolved |-> Some(Len(J) + 1), created |-> TRUE,
              jobs |-> create_job(J, user_id, job_name_or_id, None, None, t)]

\* POST /debrief
debrief_endpoint(user_id, job_name_or_id, transcript) ==
    \E by_name \in get_job_by_name(jobs, user_id, job_name_or_id) :
        /\ served < MaxRequests
        /\ UNCHANGED inflight
        /\ LET res == resolve_job(jobs, user_id, job_name_or_id, by_name, Clock(now))
               t1  == IF res.created THEN Clock(now) ELSE now
               req == [op |-> "debrief", user_id |-> user_id,
                       job_name_or_id |-> job_name_or_id]
           IN  IF res.resolved = None
               THEN /\ last' = req @@ [status |-> HTTP_404, job_id |-> None,
                                       created |-> FALSE]
                    /\ UNCHANGED <<jobs, entries, now, served>>
               ELSE LET job == res.resolved[1]
                        ce  == create_entry(res.jobs, entries, user_id, job, transcript,
                                            Some(EmptyMap), None, None, Clock(t1))
                        t2  == Clock(t1)
                        t3  == Clock(t2)
                        ujs == update_job_state(res.jobs, job, user_id,
                                                state_patch(transcript, t3), Clock(t3))
                    IN  IF ce.raised
                        THEN /\ res.created => Len(jobs) < MaxJobs
                             /\ jobs' = res.jobs
                             /\ now' = t1
                             /\ served' = IF res.created THEN served + 1 ELSE served
                             /\ last' = req @@ [status |-> HTTP_400,
                                                job_id |-> res.resolved,
                                                created |-> res.created]
                             /\ UNCHANGED entries
                        ELSE /\ res.created => Len(jobs) < MaxJobs
                             /\ Len(entries) < MaxEntries
                             /\ jobs' = ujs.jobs
                             /\ entries' = ce.entries
                             /\ now' = Clock(t3)
                             /\ served' = served + 1
                             /\ last' = req @@ [status |-> HTTP_201,
                                                job_id |-> res.resolved,
                                                created |-> res.created,
                                                transcript |-> transcript]

Next ==
    \/ \E u \in Users, n \in Names, b \in JobCreateBodies :
         create_job_endpoint(u, n, b.address, b.client_name)
    \/ \E i \in IdSpace, u \in Users, b \in JobUpdateBodies :
         update_job_endpoint(i, u, b)
    \/ \E i \in IdSpace, u \in Users, p \in Patches :
         update_job_state_endpoint(i, u, p)
    \/ \E u \in Users, i \in IdSpace, b \in EntryCreateBodies :
         create_entry_endpoint(u, i, b)
    \/ \E u \in Users, s \in DebriefStrs, t \in DebriefTranscripts :
         debrief_endpoint(u, s, t)

Spec == Init /\ [][Next]_vars

----------------------------------------------------------------------------
(* Overlapping state patches.  A worker serves POST /jobs/{job_id}/state   *)
(* in a session of its own; between the load of the row and the commit     *)
(* other requests, overlapping or not, may be served.                      *)

\* update_job_state up to the commit: get_job loads the row into the
\* session, the patch is merged into the loaded object and updated_at is
\* stamped on it.  A job that is not found is answered at once, as in
\* update_job_state_endpoint.
update_job_state_load(job_id, user_id, patch) ==
    /\ served < MaxRequests
    /\ Cardinality(inflight) < MaxInFlight
    /\ get_job(jobs, job_id, user_id) # None
    /\ inflight' = inflight \cup
                     { [job_id |-> job_id, user_id |-> user_id, patch |-> patch,
                        loaded |-> jobs[job_id].job_state,
                        updated_at |-> Clock(now)] }
    /\ now' = Clock(now)
    /\ served' = served + 1
    /\ UNCHANGED <<jobs, entries, last>>

\* db.commit() of the session s, db.refresh and the 200 response: the UPDATE
\* sets updated_at, and job_state when the flush finds it changed; a column
\* the UPDATE does not set keeps the value the row has now.
update_job_state_commit(s) ==
    LET written == flush_job_state(s.loaded, s.patch)
    IN  /\ s \in inflight
        /\ jobs' = [jobs EXCEPT
                      ![s.job_id].job_state  = IF written # s.loaded THEN written ELSE @,
                      ![s.job_id].updated_at = s.updated_at]
        /\ inflight' = inflight \ {s}
        /\ last' = [op |-> "update_job_state", user_id |-> s.user_id,
                    status |-> HTTP_200, job_id |-> s.job_id, patch |-> s.patch]
        /\ UNCHANGED <<entries, now, served>>

NextRace ==
    \/ Next
    \/ \E i \in IdSpace, u \in Users, p \in Patches :
         update_job_state_load(i, u, p)
    \/ \E s \in inflight :
         update_job_state_commit(s)

SpecRace == Init /\ [][NextRace]_vars

----------------------------------------------------------------------------
(* Ownership isolation *)

\* Whether entry e belongs to a job that user_id owns.
EntryOfOwner(e, user_id) ==
    /\ entries[e].job_id \in DOMAIN jobs
    /\ jobs[entries[e].job_id].user_id = user_id

\* No read called with owner b returns a job of another owner, or an entry
\* of such a job, whatever identifier, name, query or limit b supplies.
ReadsIsolated ==
    \A b \in Users :
        /\ \A i \in IdSpace :
             get_job(jobs, i, b) # None => jobs[i].user_id = b
        /\ \A lim \in Limits : \A r \in list_jobs(jobs, b, lim) :
             \A k \in DOMAIN r : jobs[r[k]].user_id = b
        /\ \A n \in DebriefStrs \cup { jobs[k].name : k \in DOMAIN jobs } :
             \A r \in get_job_by_name(jobs, b, n) :
               r # None => jobs[r[1]].user_id = b
        /\ \A i \in IdSpace, lim \in Limits :
             /\ \A r \in list_entries(jobs, entries, b, i, lim) :
                  \A k \in DOMAIN r : EntryOfOwner(r[k], b)
             /\ \A q \in Queries :
                  \A r \in search_entries(jobs, entries, b, i, q, lim) :
                    \A k \in DOMAIN r : EntryOfOwner(r[k], b)

\* A request of owner last'.user_id leaves every job of another owner as it
\* was (its owner included), and the entries under it as they were, none
\* added.
WritesIsolated ==
    \A i \in DOMAIN jobs :
        jobs[i].user_id # last'.user_id =>
            /\ i \in DOMAIN jobs'
            /\ jobs'[i] = jobs[i]
            /\ \A e \in DOMAIN entries' :
                 entries'[e].job_id = i =>
                     e \in DOMAIN entries /\ entries'[e] = entries[e]

\* C1: ownership isolation.  A job of owner A is never returned by get_job,
\* list_jobs or get_job_by_name called with another owner B, is never
\* changed by a request of B, and its entries are never returned by
\* list_entries or search_entries called with B nor added to by B, even
\* when B supplies A's exact job identifier.
C1_OwnershipIsolation == []ReadsIsolated /\ [][WritesIsolated]_vars

\* B was refused on A's exact job identifier while that job has entries.
C1_Witness ==
    /\ last.op \in {"update_job", "update_job_state", "create_entry"}
    /\ last.status = HTTP_404
    /\ last.user_id = "B"
    /\ last.job_id \in DOMAIN jobs
    /\ jobs[last.job_id].user_id = "A"
    /\ \E e \in DOMAIN entries : entries[e].job_id = last.job_id

----------------------------------------------------------------------------
(* State patch *)

\* C2: update_job_state is a shallow merge that accumulates: after a
\* successful call with patch P on a job whose stored state map was S, the
\* stored state map has exactly the keys of S and P, maps each key of P to
\* P's value (a nested map replaced whole) and every key of S that is not
\* in P to its old value.
C2_ShallowMergeAccumulates ==
    [][ (last'.op = "update_job_state" /\ last'.status = HTTP_200) =>
          LET S  == jobs[last'.job_id].job_state
              P  == last'.patch
              S2 == jobs'[last'.job_id].job_state
          IN  /\ DOMAIN S2 = (DOMAIN S) \cup (DOMAIN P)
              /\ \A k \in DOMAIN P : S2[k] = P[k]
              /\ \A k \in (DOMAIN S) \ (DOMAIN P) : S2[k] = S[k] ]_vars

----------------------------------------------------------------------------
(* Debrief: resolving the job *)

\* C3 as stated: whatever the text, debrief resolves a job (by identifier,
\* else by name, else by creating one) and never signals NotFound.
C3_NeverNotFound == last.op = "debrief" => last.status # HTTP_404

\* What a debrief step did with the text it was given.
DebriefResolution ==
    LET u  == last'.user_id
        s  == last'.job_name_or_id
        id == UUID(s)
    IN  IF id # None
        THEN IF get_job(jobs, id[1], u) # None
             THEN /\ last'.status = HTTP_201
                  /\ last'.job_id = id
                  /\ ~last'.created
                  /\ Len(jobs') = Len(jobs)
             ELSE /\ last'.status = HTTP_404
                  /\ UNCHANGED <<jobs, entries>>
        ELSE /\ last'.status = HTTP_201
             /\ IF \E i \in DOMAIN jobs : jobs[i].user_id = u /\ jobs[i].name = s
                THEN /\ ~last'.created
                     /\ Len(jobs') = Len(jobs)
                     /\ jobs[last'.job_id[1]].user_id = u
                     /\ jobs[last'.job_id[1]].name = s
                ELSE /\ last'.created
                     /\ Len(jobs') = Len(jobs) + 1
                     /\ last'.job_id = Some(Len(jobs'))
                     /\ jobs'[Len(jobs')].user_id = u
                     /\ jobs'[Len(jobs')].name = s

\* C3 (amended): a text that parses as an identifier is looked up by
\* identifier for the owner only: the job is used when it exists, and
\* otherwise debrief signals NotFound and changes nothing (no lookup by
\* name, no job created).  A text that does not parse is looked up by exact
\* name for the owner, and a job of that name is created when there is
\* none; for such a text debrief never signals NotFound.
C3_DebriefResolution == [][ last'.op = "debrief" => DebriefResolution ]_vars

\* A debrief was refused on an identifier-shaped text, and one succeeded by
\* creating a job for a name.
C3_Witness ==
    /\ last.op = "debrief"
    /\ last.status = HTTP_404
    /\ UUID(last.job_name_or_id) # None
    /\ \E i \in DOMAIN jobs :
         jobs[i].name \in Names /\ jobs[i].address = None

----------------------------------------------------------------------------
(* Entries *)

\* C4: create_entry with an (owner, job_id) pair that resolves to no job of
\* that owner answers 404 and leaves the store unchanged (no entry created,
\* no job modified); it answers 404 in no other case.
C4_CreateEntryNotFound ==
    [][ last'.op = "create_entry" =>
          /\ (get_job(jobs, last'.job_id, last'.user_id) = None)
                <=> (last'.status = HTTP_404)
          /\ last'.status = HTTP_404 => UNCHANGED <<jobs, entries>>
          /\ last'.status # HTTP_404 =>
                /\ last'.status = HTTP_201
                /\ Len(entries') = Len(entries) + 1 ]_vars

\* An entry was refused for a job that exists but belongs to the other
\* owner, in a store that already holds an entry.
C4_Witness ==
    /\ last.op = "create_entry"
    /\ last.status = HTTP_404
    /\ last.job_id \in DOMAIN jobs
    /\ entries # <<>>

\* C5: every entry refers to an existing job, and the entry's owner is that
\* job's owner.
C5_EntryOwnerMatchesJob ==
    \A e \in DOMAIN entries :
        /\ entries[e].job_id \in DOMAIN jobs
        /\ entries[e].user_id = jobs[entries[e].job_id].user_id

\* Both owners have jobs and entries, made by create_entry and by debrief,
\* and a job with an entry was renamed since.
C5_Witness ==
    /\ \E e \in DOMAIN entries : entries[e].user_id = "A"
    /\ \E e \in DOMAIN entries : entries[e].user_id = "B"
    /\ last.op = "update_job"
    /\ last.status = HTTP_200
    /\ \E e \in DOMAIN entries : entries[e].job_id = last.job_id

----------------------------------------------------------------------------
(* Debrief: what it stores *)

\* The first SummaryLimit characters of a transcript, all of it when it is
\* no longer than that.
ExpectedSummary(transcript) ==
    IF Len(transcript) <= SummaryLimit
    THEN transcript
    ELSE SubSeq(transcript, 1, SummaryLimit)

\* C6: a successful debrief adds exactly one entry, under the resolved job,
\* with the given transcript, an empty extracted map and no summary; it
\* adds exactly one job, named job_name_or_id, when the owner had no
\* matching job and none otherwise; and afterwards the resolved job's stored
\* state map has last_summary equal to the transcript cut to its first 200
\* characters, whatever the state map was before.
C6_DebriefStores ==
    [][ (last'.op = "debrief" /\ last'.status = HTTP_201) =>
          LET u == last'.user_id
              s == last'.job_name_or_id
              j == last'.job_id[1]
              matching ==
                  \/ UUID(s) # None /\ get_job(jobs, UUID(s)[1], u) # None
                  \/ \E i \in DOMAIN jobs : jobs[i].user_id = u /\ jobs[i].name = s
          IN  /\ Len(entries') = Len(entries) + 1
              /\ SubSeq(entries', 1, Len(entries)) = entries
              /\ entries'[Len(entries')].job_id = j
              /\ entries'[Len(entries')].user_id = u
              /\ entries'[Len(entries')].transcript = last'.transcript
              /\ entries'[Len(entries')].extracted = EmptyMap
              /\ entries'[Len(entries')].summary = None
              /\ Len(jobs') = Len(jobs) + (IF matching THEN 0 ELSE 1)
              /\ ~matching => (j = Len(jobs') /\ jobs'[j].name = s)
              /\ jobs'[j].user_id = u
              /\ "last_summary" \in DOMAIN jobs'[j].job_state
              /\ jobs'[j].job_state["last_summary"]
                    = JStr(ExpectedSummary(last'.transcript)) ]_vars

----------------------------------------------------------------------------
(* Search *)

\* Whether text contains query literally, case folded, as a substring.
Contains(text, query) ==
    \E at \in 0 .. (Len(text) - Len(query)) :
        \A k \in 1 .. Len(query) : Lower(text[at + k]) = Lower(query[k])

\* Whether entry e has query as a literal substring of its transcript or of
\* its summary.
EntryContains(e, query) ==
    \/ Contains(entries[e].transcript, query)
    \/ entries[e].summary # None /\ Contains(entries[e].summary[1], query)

\* The entries of job i of owner u.
EntriesOf(u, i) ==
    { e \in DOMAIN entries : entries[e].job_id = i /\ entries[e].user_id = u }

\* C7: search_entries is a pure substring filter: for every query, every
\* entry returned belongs to the given job of the owner and has a
\* transcript or a summary that contains the query text literally, case
\* folded.
C7_SearchIsSubstringFilter ==
    \A u \in Users, i \in IdSpace, query \in Queries, lim \in Limits :
        \A r \in search_entries(jobs, entries, u, i, query, lim) :
            \A k \in DOMAIN r :
                /\ r[k] \in EntriesOf(u, i)
                /\ jobs[i].user_id = u
                /\ EntryContains(r[k], query)

PlainQueries ==
    { query \in Queries :
        \A k \in DOMAIN query : query[k] \notin {"%", "_", "\\"} }

Min(a, b) == IF a < b THEN a ELSE b

----------------------------------------------------------------------------
(* Partial update *)

\* C9: update_job applies only the fields that are provided: an omitted
\* status, name, address or client_name keeps its stored value, the job's
\* identifier, owner, state map and created timestamp are unchanged, and no
\* other job and no entry is changed; when no job matches (owner, id) it
\* answers 404 and the whole store is unchanged.
C9_UpdateJobPartial ==
    [][ last'.op = "update_job" =>
          LET i == last'.job_id
              u == last'.user_id
          IN  IF get_job(jobs, i, u) = None
              THEN /\ last'.status = HTTP_404
                   /\ UNCHANGED <<jobs, entries>>
              ELSE LET b == last'.body
                       old == jobs[i]
                       new == jobs'[i]
                   IN  /\ last'.status = HTTP_200
                       /\ new.status = IF b.status # None
                                       THEN b.status[1] ELSE old.status
                       /\ new.name = IF b.name # None THEN b.name[1] ELSE old.name
                       /\ new.address = IF b.address # None
                                        THEN b.address ELSE old.address
                       /\ new.client_name = IF b.client_name # None
                                            THEN b.client_name ELSE old.client_name
                       /\ new.id = old.id
                       /\ new.user_id = old.user_id
                       /\ new.job_state = old.job_state
                       /\ new.created_at = old.created_at
                       /\ DOMAIN jobs' = DOMAIN jobs
                       /\ \A k \in DOMAIN jobs : k # i => jobs'[k] = jobs[k]
                       /\ entries' = entries ]_vars

\* An update that gave only the status was applied to a job that has an
\* address and a non-empty state map.
C9_Witness ==
    /\ last.op = "update_job"
    /\ last.status = HTTP_200
    /\ last.body.status # None
    /\ last.body.address = None
    /\ jobs[last.job_id].status = last.body.status[1]
    /\ jobs[last.job_id].address # None
    /\ jobs[last.job_id].job_state # EmptyMap

----------------------------------------------------------------------------
(* Listing jobs *)

\* The jobs of owner u.
JobsOf(J, u) == { i \in DOMAIN J : J[i].user_id = u }

\* Every possible result of list_jobs holds only jobs of the owner, each
\* once, with updated_at non-increasing; it holds min(limit, n) of the
\* owner's n jobs, and no job left out was updated later than one it holds.
ListJobsOrdered ==
    \A u \in Users, lim \in Limits : \A r \in list_jobs(jobs, u, lim) :
        /\ \A k \in DOMAIN r : r[k] \in JobsOf(jobs, u)
        /\ \A k, m \in DOMAIN r : k # m => r[k] # r[m]
        /\ \A k, m \in DOMAIN r :
             k < m => jobs[r[k]].updated_at >= jobs[r[m]].updated_at
        /\ Len(r) = Min(lim, Cardinality(JobsOf(jobs, u)))
        /\ \A o \in JobsOf(jobs, u) :
             (\A k \in DOMAIN r : r[k] # o) =>
                 \A k \in DOMAIN r : jobs[r[k]].updated_at >= jobs[o].updated_at

\* After a successful update_job or update_job_state (a debrief's
\* included) the job comes first in the owner's listing, before every
\* other job of the owner.
UpdatedJobListedFirst ==
    /\ (last'.op \in {"update_job", "update_job_state"} /\ last'.status = HTTP_200) =>
          \A lim \in Limits : \A r \in list_jobs(jobs', last'.user_id, lim) :
              /\ r # <<>>
              /\ r[1] = last'.job_id
              /\ \A k \in DOMAIN r :
                   k # 1 => jobs'[r[k]].updated_at < jobs'[r[1]].updated_at
    /\ (last'.op = "debrief" /\ last'.status = HTTP_201) =>
          \A lim \in Limits : \A r \in list_jobs(jobs', last'.user_id, lim) :
              r # <<>> /\ r[1] = last'.job_id[1]

\* C10: list_jobs returns only jobs of the owner, in non-increasing order
\* of updated_at, the min(limit, n) most recently updated ones; after
\* update_job or update_job_state on a job, that job comes before every job
\* of the owner that was not touched since.
C10_ListJobsRecentFirst == []ListJobsOrdered /\ [][UpdatedJobListedFirst]_vars

\* The owner's older job was updated and is now listed before the newer
\* one, and a limit of one returns it alone.
C10_Witness ==
    /\ last.op \in {"update_job", "update_job_state"}
    /\ last.status = HTTP_200
    /\ \E o \in JobsOf(jobs, last.user_id) :
         /\ jobs[o].created_at > jobs[last.job_id].created_at
         /\ list_jobs(jobs, last.user_id, LimitMax) = {<<last.job_id, o>>}
    /\ list_jobs(jobs, last.user_id, LimitMin) = {<<last.job_id>>}

----------------------------------------------------------------------------
(* C11: created_at and updated_at of a job.                                *)

\* No job was updated before it was created.
UpdatedNotBeforeCreated ==
    \A i \in DOMAIN jobs : jobs[i].updated_at >= jobs[i].created_at

\* Every job stays, with the created_at it has.
CreatedAtKept ==
    \A i \in DOMAIN jobs :
        i \in DOMAIN jobs' /\ jobs'[i].created_at = jobs[i].created_at

\* A successful update_job, update_job_state or debrief leaves the job with
\* the updated_at its call stamped: the clock value the request read, later
\* than every value read before it, when the request is served in one step,
\* and the value stamped at the load when an overlapping request commits.
UpdatedAtRefreshed ==
    /\ (/\ inflight' = inflight
        /\ last'.op \in {"update_job", "update_job_state"}
        /\ last'.status = HTTP_200) =>
           /\ now' > now
           /\ jobs'[last'.job_id].updated_at = now'
    /\ (/\ inflight' = inflight
        /\ last'.op = "debrief"
        /\ last'.status = HTTP_201) =>
           /\ now' > now
           /\ jobs'[last'.job_id[1]].updated_at = now'
    /\ \A s \in inflight \ inflight' :
           /\ s.updated_at <= now
           /\ jobs'[s.job_id].updated_at = s.updated_at

\* No job's updated_at goes back.
UpdatedAtNeverDecreases ==
    \A i \in DOMAIN jobs : jobs'[i].updated_at >= jobs[i].updated_at

\* C11 as stated: each job has updated_at >= created_at, every successful
\* update_job, update_job_state or debrief refreshes the job's updated_at
\* to the time of the call, no job's updated_at ever decreases, and
\* created_at never changes.
C11_UpdatedAtNeverDecreases ==
    /\ []UpdatedNotBeforeCreated
    /\ [][CreatedAtKept /\ UpdatedAtRefreshed /\ UpdatedAtNeverDecreases]_vars

\* C11, with the requests that may overlap: each job has updated_at >=
\* created_at, created_at never changes, every successful update_job,
\* update_job_state or debrief leaves the job with the updated_at its call
\* stamped, and updated_at does not decrease in any step other than the
\* commit of a state patch that overlapped other requests.
C11_UpdatedAtRefreshed ==
    /\ []UpdatedNotBeforeCreated
    /\ [][ /\ CreatedAtKept
           /\ UpdatedAtRefreshed
           /\ (inflight \subseteq inflight' => UpdatedAtNeverDecreases) ]_vars

\* A state patch has committed after requests that were stamped later: the
\* job's updated_at is that patch's stamp, later than created_at and
\* earlier than the clock.
C11_Witness ==
    /\ inflight = {}
    /\ last.op = "update_job_state"
    /\ last.status = HTTP_200
    /\ jobs[last.job_id].updated_at > jobs[last.job_id].created_at
    /\ jobs[last.job_id].updated_at < now

----------------------------------------------------------------------------
(* C12: state patches that overlap, and state patches that do not.         *)

\* A state patch served with no request between its load and its commit
\* leaves the state map with the keys it had and the patch's keys, the
\* latter at the patch's values: of two patches served one after the
\* other, the keys of both are present.
PatchesOneAfterTheOther ==
    (/\ inflight' = inflight
     /\ last'.op = "update_job_state"
     /\ last'.status = HTTP_200) =>
        LET S  == jobs[last'.job_id].job_state
            S2 == jobs'[last'.job_id].job_state
        IN  /\ (DOMAIN S) \cup (DOMAIN last'.patch) \subseteq DOMAIN S2
            /\ \A k \in DOMAIN last'.patch : S2[k] = last'.patch[k]

\* The commit of an overlapping state patch stores the map its session
\* loaded, merged with its patch, whatever was committed since the load.
LastWriterWins ==
    \A s \in inflight \ inflight' :
        jobs'[s.job_id].job_state = dict_update(s.loaded, s.patch)

\* C12 as stated: the state patch is an unlocked read-modify-write; when
\* two patches of a job overlap, the writer that commits last wins and the
\* stored state map holds what it read and its patch only; when they are
\* served one after the other, the keys of both patches are present.
C12_LastWriterWins == [][PatchesOneAfterTheOther /\ LastWriterWins]_vars

\* Two state patches of one job with disjoint keys overlap: one has
\* committed its keys, and the other, which loaded the empty state map
\* and was stamped before it, has yet to commit.
C12_Witness ==
    \E s \in inflight :
        /\ s.loaded = EmptyMap
        /\ last.op = "update_job_state"
        /\ last.status = HTTP_200
        /\ last.job_id = s.job_id
        /\ jobs[s.job_id].job_state = last.patch
        /\ jobs[s.job_id].updated_at > s.updated_at
        /\ (DOMAIN s.patch) \cap (DOMAIN last.patch) = {}

====
